---- MODULE Spec2Model ----
(***************************************************************************)
(* MediTrack (src/backend.py): a console medicine and appointment tracker. *)
(* The model follows the program: the JSON document on disk, the logged-in *)
(* User object held by MediTrackApp, the calendar day, and one action per  *)
(* menu handler.                                                           *)
(*                                                                         *)
(* Strings typed at a prompt are TLA+ strings; a date string is the tuple  *)
(* <<year, month, day>> of its "%Y-%m-%d" fields (<< >> is the empty       *)
(* string), so that strptime can accept or reject it and date arithmetic   *)
(* is computed on the real calendar.                                       *)
(***************************************************************************)
EXTENDS Integers, Sequences, FiniteSets, TLC

VARIABLES
    disk,          \* the file DATABASE_FILE: [exists, content, data]
    current_user,  \* MediTrackApp.current_user: << >> (None) or <<user>>
    today,         \* date.today(), as a proleptic Gregorian ordinal
    pc,            \* "menu" while main_menu loops, "terminated" after exit or a traceback
    last,          \* what the last handler printed: [op, result]
    procs          \* two MediTrack processes on the same file, each where it is in
                   \* its handler: [current_user, at, user, data] (used by SpecRace)

vars == <<disk, current_user, today, pc, last, procs>>

(***************************************************************************)
(* Bounds of the exploration.                                              *)
(***************************************************************************)
MaxMeds == 2        \* medicines in the whole store, where medicines are explored
MaxAppts == 2       \* appointments in the whole store, where appointments are explored
MaxDays == 2        \* days the clock may advance
FewMeds == 1        \* medicines in the whole store, elsewhere
FewAppts == 1       \* appointments in the whole store, elsewhere
FewDays == 1        \* days the clock may advance, elsewhere

(***************************************************************************)
(* Program constants.                                                      *)
(***************************************************************************)
DefaultStock == 30      \* "Initial stock [30]"
DefaultDays == 30       \* end date default: now + timedelta(days=30)
LowStock == 5           \* "low stock": medicine.stock <= 5
SoonDays == 3           \* an appointment is announced when 1 <= days <= 3
CriticalStock == 2      \* emergency mode: "critical" is stock <= 2
UrgentDays == 3         \* emergency mode: "urgent" is days_until() <= 3

None == << >>
EmptyDict == << >>
EmptyDate == << >>

Get(d, k, default) == IF k \in DOMAIN d THEN d[k] ELSE default

(***************************************************************************)
(* str.strip(), int(), str.isdigit() on the strings the model types in.    *)
(***************************************************************************)
strip(s) ==
    CASE s = " " -> ""
      [] s = " alice " -> "alice"
      [] OTHER -> s

IntLiterals == ("0" :> 0) @@ ("1" :> 1) @@ ("2" :> 2) @@ ("3" :> 3) @@ ("4" :> 4)
               @@ ("5" :> 5) @@ ("30" :> 30) @@ ("-1" :> (0 - 1)) @@ ("-2" :> (0 - 2))

int_raises(s) == s \notin DOMAIN IntLiterals

int(s) == IntLiterals[s]

\* The one-character string U+00B2, superscript two: str.isdigit() holds of
\* it, and int() raises ValueError on it.
SuperscriptTwo == "sup2"

isdigit(s) == s = SuperscriptTwo \/ (s \in DOMAIN IntLiterals /\ IntLiterals[s] >= 0)

(***************************************************************************)
(* datetime: strptime("%Y-%m-%d"), date ordinals, strftime("%Y-%m-%d").    *)
(***************************************************************************)
IsLeap(y) == (y % 4 = 0) /\ ((y % 100 # 0) \/ (y % 400 = 0))

DaysInMonth(y, m) ==
    IF m = 2 THEN (IF IsLeap(y) THEN 29 ELSE 28)
    ELSE IF m \in {4, 6, 9, 11} THEN 30 ELSE 31

DaysBeforeYear(y) ==
    (y - 1) * 365 + ((y - 1) \div 4) - ((y - 1) \div 100) + ((y - 1) \div 400)

RECURSIVE DaysBeforeMonth(_, _)
DaysBeforeMonth(y, m) ==
    IF m <= 1 THEN 0 ELSE DaysInMonth(y, m - 1) + DaysBeforeMonth(y, m - 1)

strptime_raises(s) ==
    ~ (/\ Len(s) = 3
       /\ s[1] \in 1..9999
       /\ s[2] \in 1..12
       /\ s[3] \in 1..DaysInMonth(s[1], s[2]))

toordinal(s) == DaysBeforeYear(s[1]) + DaysBeforeMonth(s[1], s[2]) + s[3]

\* The dates of the year the model's clock runs in.
Calendar ==
    {s \in {2024} \X (1..12) \X (1..31) : s[3] <= DaysInMonth(s[1], s[2])}

fromordinal == [s \in Calendar |-> toordinal(s)]

strftime(n) == CHOOSE s \in Calendar : fromordinal[s] = n

FirstDay == toordinal(<<2024, 2, 27>>)

(***************************************************************************)
(* class Appointment                                                       *)
(***************************************************************************)
Appointment(title, doctor, date_str, time_str, location) ==
    [title |-> title, doctor |-> doctor, date |-> date_str, time |-> time_str,
     location |-> location, completed |-> FALSE]

days_until_raises(a) == strptime_raises(a.date)

days_until(a, now) == toordinal(a.date) - now

Appointment_to_dict(a) ==
    [title |-> a.title, doctor |-> a.doctor, date |-> a.date, time |-> a.time,
     location |-> a.location, completed |-> a.completed]

\* from_dict that does not restore the completed flag.
Appointment_from_dict_reopen(data) ==
    Appointment(data.title, data.doctor, data.date, data.time,
                Get(data, "location", ""))

Appointment_from_dict(data) ==
    [Appointment(data.title, data.doctor, data.date, data.time,
                 Get(data, "location", ""))
        EXCEPT !.completed = Get(data, "completed", FALSE)]

(***************************************************************************)
(* class Medicine                                                          *)
(***************************************************************************)
Medicine(name, dosage, frequency, start_date, end_date, stock) ==
    [name |-> name, dosage |-> dosage, frequency |-> frequency,
     start_date |-> start_date, end_date |-> end_date, stock |-> stock,
     taken_today |-> 0, missed_today |-> 0]

\* take_dose with the stock test off by one: a dose is handed out at stock 0.
take_dose_offbyone(m) ==
    IF m.stock < 0
    THEN [ok |-> FALSE, medicine |-> m]
    ELSE [ok |-> TRUE,
          medicine |-> [m EXCEPT !.stock = @ - 1, !.taken_today = @ + 1]]

\* take_dose that forgets to count the dose.
take_dose_nocount(m) ==
    IF m.stock <= 0
    THEN [ok |-> FALSE, medicine |-> m]
    ELSE [ok |-> TRUE, medicine |-> [m EXCEPT !.stock = @ - 1]]

\* take_dose that also counts a dose as missed.
take_dose_missed(m) ==
    IF m.stock <= 0
    THEN [ok |-> FALSE, medicine |-> m]
    ELSE [ok |-> TRUE,
          medicine |-> [m EXCEPT !.stock = @ - 1, !.taken_today = @ + 1,
                                 !.missed_today = @ + 1]]

\* The return value and the medicine as take_dose leaves it.
take_dose(m) ==
    IF m.stock <= 0
    THEN [ok |-> FALSE, medicine |-> m]
    ELSE [ok |-> TRUE,
          medicine |-> [m EXCEPT !.stock = @ - 1, !.taken_today = @ + 1]]

Medicine_to_dict(m) ==
    [name |-> m.name, dosage |-> m.dosage, frequency |-> m.frequency,
     start_date |-> m.start_date, end_date |-> m.end_date, stock |-> m.stock,
     taken_today |-> m.taken_today, missed_today |-> m.missed_today]

\* from_dict that does not pass the saved stock on (the constructor default is used).
Medicine_from_dict_restock(data) ==
    [Medicine(data.name, data.dosage, data.frequency, data.start_date,
              data.end_date, DefaultStock)
        EXCEPT !.taken_today = Get(data, "taken_today", 0),
               !.missed_today = Get(data, "missed_today", 0)]

\* from_dict that starts the counters of the day afresh.
Medicine_from_dict_fresh(data) ==
    Medicine(data.name, data.dosage, data.frequency, data.start_date,
             data.end_date, data.stock)

Medicine_from_dict(data) ==
    [Medicine(data.name, data.dosage, data.frequency, data.start_date,
              data.end_date, data.stock)
        EXCEPT !.taken_today = Get(data, "taken_today", 0),
               !.missed_today = Get(data, "missed_today", 0)]

(***************************************************************************)
(* class User                                                              *)
(***************************************************************************)
User(username, password, name) ==
    [username |-> username, password |-> password, name |-> name,
     medicines |-> << >>, appointments |-> << >>,
     emergency_contact |-> "", emergency_phone |-> ""]

User_to_dict(u) ==
    [username |-> u.username, password |-> u.password, name |-> u.name,
     medicines |-> [i \in 1..Len(u.medicines) |-> Medicine_to_dict(u.medicines[i])],
     appointments |->
        [i \in 1..Len(u.appointments) |-> Appointment_to_dict(u.appointments[i])],
     emergency_contact |-> u.emergency_contact,
     emergency_phone |-> u.emergency_phone]

\* from_dict that does not read the emergency contact.
User_from_dict_nocontact(data) ==
    LET meds == Get(data, "medicines", << >>)
        appts == Get(data, "appointments", << >>)
    IN  [User(data.username, data.password, data.name)
            EXCEPT !.medicines = [i \in 1..Len(meds) |-> Medicine_from_dict(meds[i])],
                   !.appointments =
                        [i \in 1..Len(appts) |-> Appointment_from_dict(appts[i])]]

User_from_dict(data) ==
    LET meds == Get(data, "medicines", << >>)
        appts == Get(data, "appointments", << >>)
    IN  [User(data.username, data.password, data.name)
            EXCEPT !.medicines = [i \in 1..Len(meds) |-> Medicine_from_dict(meds[i])],
                   !.appointments =
                        [i \in 1..Len(appts) |-> Appointment_from_dict(appts[i])],
                   !.emergency_contact = Get(data, "emergency_contact", ""),
                   !.emergency_phone = Get(data, "emergency_phone", "")]

(***************************************************************************)
(* class Database.  The file is [exists, content, data]: content "json"    *)
(* is a complete document holding the dict data; "empty" is the file right *)
(* after open(..., 'w') truncated it; "partial" is a document cut short.   *)
(***************************************************************************)
NoFile == [exists |-> FALSE, content |-> "empty", data |-> EmptyDict]

load_data(file) ==
    IF file.exists
    THEN IF file.content = "json" THEN file.data ELSE EmptyDict
    ELSE EmptyDict

\* w is how far the write gets: "complete", or cut after the open ("opened")
\* or in the middle of json.dump ("dumping").
save_data(data, w) ==
    CASE w = "complete" -> [exists |-> TRUE, content |-> "json", data |-> data]
      [] w = "opened"   -> [exists |-> TRUE, content |-> "empty", data |-> EmptyDict]
      [] w = "dumping"  -> [exists |-> TRUE, content |-> "partial", data |-> EmptyDict]

\* data after data['users'][user.username] = user.to_dict()
put_user(data, user) ==
    LET users == Get(data, "users", EmptyDict)
        updated == (user.username :> User_to_dict(user)) @@ users
    IN  ("users" :> updated) @@ data

save_user(file, user, w) == save_data(put_user(load_data(file), user), w)

\* user_exists that never finds the name.
user_exists_never(file, username) == FALSE

user_exists(file, username) ==
    username \in DOMAIN Get(load_data(file), "users", EmptyDict)

load_user(file, username) ==
    LET users == Get(load_data(file), "users", EmptyDict)
    IN  IF username \in DOMAIN users THEN <<User_from_dict(users[username])>> ELSE None

(***************************************************************************)
(* class MediTrackApp: what every handler leaves behind.                   *)
(***************************************************************************)
LoggedIn == current_user # None

Me == current_user[1]

\* The handler printed msg and returned to the menu without touching anything.
Returns(op, msg) ==
    /\ last' = [op |-> op, result |-> msg]
    /\ UNCHANGED <<disk, current_user, today, pc, procs>>

\* An exception left the handler and main_menu: the process ends with a traceback.
Raises(op, exc) ==
    /\ pc' = "terminated"
    /\ current_user' = None
    /\ last' = [op |-> op, result |-> exc]
    /\ UNCHANGED procs

\* Database.save_user(user) inside a handler, then what the handler does next:
\* a write that is cut short ends the process; a complete one leaves `user`
\* as the session (or no session, for register) and reports `msg`.
Saves(op, user, session, w, msg) ==
    /\ disk' = save_user(disk, user, w)
    /\ IF w = "complete"
       THEN /\ current_user' = session
            /\ pc' = pc
            /\ last' = [op |-> op, result |-> msg]
       ELSE Raises(op, "write interrupted")
    /\ UNCHANGED <<today, procs>>

AnyDateRaises(user) ==
    \E i \in 1..Len(user.appointments) : days_until_raises(user.appointments[i])

StoredUsers == Get(load_data(disk), "users", EmptyDict)

RECURSIVE SumOver(_, _)
SumOver(f, S) ==
    IF S = {} THEN 0
    ELSE LET x == CHOOSE y \in S : TRUE IN f[x] + SumOver(f, S \ {x})

StoredMeds ==
    SumOver([u \in DOMAIN StoredUsers |-> Len(Get(StoredUsers[u], "medicines", << >>))],
            DOMAIN StoredUsers)

StoredAppts ==
    SumOver([u \in DOMAIN StoredUsers |->
                Len(Get(StoredUsers[u], "appointments", << >>))],
            DOMAIN StoredUsers)

(***************************************************************************)
(* register_user (menu 2, logged out)                                      *)
(***************************************************************************)
register_user(username_in, name_in, password_in, confirm_in, contact_in, phone_in, w) ==
    /\ pc = "menu" /\ ~ LoggedIn
    /\ LET username == strip(username_in)
           name == strip(name_in)
           password == strip(password_in)
           confirm == strip(confirm_in)
           user == [User(username, password, name)
                        EXCEPT !.emergency_contact = strip(contact_in),
                               !.emergency_phone = strip(phone_in)]
       IN  IF username = "" THEN Returns("register_user", "Username cannot be empty")
           ELSE IF user_exists(disk, username)
                THEN Returns("register_user", "Username already exists")
           ELSE IF name = "" THEN Returns("register_user", "Name cannot be empty")
           ELSE IF password = ""
                THEN Returns("register_user", "Password cannot be empty")
           ELSE IF password # confirm
                THEN Returns("register_user", "Passwords don't match")
           ELSE Saves("register_user", user, None, w, "ok")

(***************************************************************************)
(* login_user (menu 1, logged out); it ends in check_notifications.        *)
(***************************************************************************)
login_user(username_in, password_in) ==
    /\ pc = "menu" /\ ~ LoggedIn
    /\ LET user == load_user(disk, strip(username_in))
       IN  IF user # None /\ user[1].password = strip(password_in)
           THEN IF AnyDateRaises(user[1])
                THEN Raises("login_user", "ValueError") /\ UNCHANGED <<disk, today>>
                ELSE /\ current_user' = user
                     /\ last' = [op |-> "login_user", result |-> "ok"]
                     /\ UNCHANGED <<disk, today, pc, procs>>
           ELSE Returns("login_user", "Invalid username or password")

(***************************************************************************)
(* check_notifications (menu 2, logged in)                                 *)
(***************************************************************************)
\* The list `notifications` the handler builds: one entry per appointment
\* that is announced, then one per medicine that is low.
RECURSIVE appointment_notes(_, _)
appointment_notes(appointments, now) ==
    IF appointments = << >> THEN << >>
    ELSE LET appointment == Head(appointments)
             days == days_until(appointment, now)
             note == IF days = 0 /\ ~ appointment.completed
                     THEN <<[kind |-> "TODAY", title |-> appointment.title,
                             doctor |-> appointment.doctor]>>
                     ELSE IF 1 <= days /\ days <= SoonDays /\ ~ appointment.completed
                          THEN <<[kind |-> "in days", title |-> appointment.title,
                                  doctor |-> appointment.doctor, days |-> days]>>
                          ELSE << >>
         IN  note \o appointment_notes(Tail(appointments), now)

RECURSIVE medicine_notes(_)
medicine_notes(medicines) ==
    IF medicines = << >> THEN << >>
    ELSE LET medicine == Head(medicines)
             note == IF medicine.stock <= LowStock
                     THEN <<[kind |-> "low stock", name |-> medicine.name,
                             stock |-> medicine.stock]>>
                     ELSE << >>
         IN  note \o medicine_notes(Tail(medicines))

\* check_notifications that forgets to leave completed appointments out.
notifications_completed(user, now) ==
    appointment_notes([i \in 1..Len(user.appointments) |->
                          [user.appointments[i] EXCEPT !.completed = FALSE]], now)
        \o medicine_notes(user.medicines)

\* check_notifications that goes through the medicines first.
notifications_medsfirst(user, now) ==
    medicine_notes(user.medicines) \o appointment_notes(user.appointments, now)

notifications(user, now) ==
    appointment_notes(user.appointments, now) \o medicine_notes(user.medicines)

check_notifications ==
    /\ pc = "menu" /\ LoggedIn
    /\ IF AnyDateRaises(Me)
       THEN Raises("check_notifications", "ValueError") /\ UNCHANGED <<disk, today>>
       ELSE Returns("check_notifications",
                    IF notifications(Me, today) # << >> THEN "shown" ELSE "nothing")

(***************************************************************************)
(* add_medicine (menu 4)                                                   *)
(***************************************************************************)
frequencies == <<"Once daily", "Twice daily", "Three times daily", "Four times daily">>

add_medicine(name_in, dosage_in, choice_in, end_date_in, stock_in, w, cap) ==
    /\ pc = "menu" /\ LoggedIn
    /\ LET name == strip(name_in)
           dosage == strip(dosage_in)
           choice == strip(choice_in)
           frequency == IF isdigit(choice) /\ 1 <= int(choice) /\ int(choice) <= 4
                        THEN frequencies[int(choice)]
                        ELSE "Once daily"
           start_date == strftime(today)
           end_date == IF end_date_in # EmptyDate THEN end_date_in
                       ELSE strftime(today + DefaultDays)
           stock_str == IF strip(stock_in) = "" THEN "30" ELSE strip(stock_in)
           stock == IF int_raises(stock_str) THEN DefaultStock ELSE int(stock_str)
           medicine == Medicine(name, dosage, frequency, start_date, end_date, stock)
           user == [Me EXCEPT !.medicines = Append(@, medicine)]
       IN  IF name = "" THEN Returns("add_medicine", "Name required")
           ELSE IF dosage = "" THEN Returns("add_medicine", "Dosage required")
           ELSE IF isdigit(choice) /\ int_raises(choice)
                \* choice.isdigit() holds and int(choice) raises, outside any try
                THEN Raises("add_medicine", "ValueError") /\ UNCHANGED <<disk, today>>
           ELSE /\ StoredMeds < cap
                /\ Saves("add_medicine", user, <<user>>, w, "ok")

(***************************************************************************)
(* mark_medicine_taken (menu 5)                                            *)
(***************************************************************************)
mark_medicine_taken(choice_in, w) ==
    /\ pc = "menu" /\ LoggedIn
    /\ LET choice == strip(choice_in)
       IN  IF Me.medicines = << >> THEN Returns("mark_medicine_taken", "No medicines")
           ELSE IF int_raises(choice)
                THEN Returns("mark_medicine_taken", "Invalid input")
           ELSE IF ~ (1 <= int(choice) /\ int(choice) <= Len(Me.medicines))
                THEN Returns("mark_medicine_taken", "Invalid choice")
           ELSE LET taken == take_dose(Me.medicines[int(choice)])
                    user == [Me EXCEPT !.medicines[int(choice)] = taken.medicine]
                IN  IF taken.ok
                    THEN Saves("mark_medicine_taken", user, <<user>>, w, "ok")
                    ELSE Returns("mark_medicine_taken", "Out of stock!")

(***************************************************************************)
(* view_medicines (menu 3)                                                 *)
(***************************************************************************)
view_medicines ==
    /\ pc = "menu" /\ LoggedIn
    /\ Returns("view_medicines", "shown")

(***************************************************************************)
(* add_appointment (menu 7)                                                *)
(***************************************************************************)
add_appointment(title_in, doctor_in, date_in, time_in, location_in, w, cap) ==
    /\ pc = "menu" /\ LoggedIn
    /\ LET title == strip(title_in)
           doctor == strip(doctor_in)
           date_str == date_in
           time_str == IF strip(time_in) = "" THEN "10:00" ELSE strip(time_in)
           location == strip(location_in)
           appointment == Appointment(title, doctor, date_str, time_str, location)
           user == [Me EXCEPT !.appointments = Append(@, appointment)]
       IN  IF title = "" THEN Returns("add_appointment", "Title required")
           ELSE IF doctor = "" THEN Returns("add_appointment", "Doctor required")
           ELSE /\ StoredAppts < cap
                /\ IF w = "complete" /\ days_until_raises(appointment)
                   \* the appointment is appended and saved, then days_until() raises
                   THEN /\ disk' = save_user(disk, user, w)
                        /\ Raises("add_appointment", "ValueError")
                        /\ UNCHANGED today
                   ELSE Saves("add_appointment", user, <<user>>, w, "ok")

(***************************************************************************)
(* mark_appointment_completed (menu 8)                                     *)
(***************************************************************************)
\* The list that is not filtered: every appointment is offered.
upcoming_all(user, now) == [i \in 1..Len(user.appointments) |-> i]

\* The indices, in list order, of the appointments the handler lists.
upcoming(user, now) ==
    SelectSeq([i \in 1..Len(user.appointments) |-> i],
              LAMBDA i : /\ days_until(user.appointments[i], now) >= 0
                         /\ ~ user.appointments[i].completed)

mark_appointment_completed(choice_in, w) ==
    /\ pc = "menu" /\ LoggedIn
    /\ LET choice == strip(choice_in)
       IN  IF Me.appointments = << >>
           THEN Returns("mark_appointment_completed", "No appointments")
           ELSE IF AnyDateRaises(Me)
                THEN /\ Raises("mark_appointment_completed", "ValueError")
                     /\ UNCHANGED <<disk, today>>
           ELSE IF upcoming(Me, today) = << >>
                THEN Returns("mark_appointment_completed", "No upcoming appointments")
           ELSE IF int_raises(choice)
                THEN Returns("mark_appointment_completed", "Invalid input")
           ELSE IF ~ (1 <= int(choice) /\ int(choice) <= Len(upcoming(Me, today)))
                THEN Returns("mark_appointment_completed", "Invalid choice")
           ELSE LET k == upcoming(Me, today)[int(choice)]
                    user == [Me EXCEPT !.appointments[k].completed = TRUE]
                IN  Saves("mark_appointment_completed", user, <<user>>, w, "ok")

(***************************************************************************)
(* view_weekly_summary (1), view_appointments (6), emergency_mode (10):    *)
(* they print, and call days_until() on every appointment.                 *)
(***************************************************************************)
\* f"{x:.1f}" of x = numerator / denominator * 100, in tenths: the nearest
\* tenth, and the even one of two that are equally near.  (This is what the
\* floating-point computation prints for every denominator below 80.)
format_1f(numerator, denominator) ==
    LET q == (numerator * 1000) \div denominator
        r == (numerator * 1000) % denominator
    IN  IF 2 * r > denominator \/ (2 * r = denominator /\ q % 2 = 1) THEN q + 1 ELSE q

\* The summary that counts the missed doses as taken.
weekly_summary_alltaken(user, now) ==
    LET medicines == user.medicines
        all == 1..Len(medicines)
        taken_today == SumOver([i \in all |-> medicines[i].taken_today], all)
        missed_today == SumOver([i \in all |-> medicines[i].missed_today], all)
    IN  [taken_today |-> taken_today, missed_today |-> missed_today,
         total_medicines |-> Len(medicines),
         upcoming_appointments |-> Len(upcoming(user, now)),
         low_stock |-> Cardinality({i \in all : medicines[i].stock <= LowStock}),
         adherence |-> IF Len(medicines) > 0 /\ taken_today + missed_today > 0
                       THEN <<format_1f(taken_today + missed_today,
                                        taken_today + missed_today)>>
                       ELSE None]

\* What view_weekly_summary prints; adherence is << >> when the line is not
\* printed, and else <<the rate in tenths of a percent>>.
weekly_summary(user, now) ==
    LET medicines == user.medicines
        all == 1..Len(medicines)
        taken_today == SumOver([i \in all |-> medicines[i].taken_today], all)
        missed_today == SumOver([i \in all |-> medicines[i].missed_today], all)
        total_medicines == Len(medicines)
        total_doses == taken_today + missed_today
    IN  [taken_today |-> taken_today, missed_today |-> missed_today,
         total_medicines |-> total_medicines,
         upcoming_appointments |-> Len(upcoming(user, now)),
         low_stock |-> Cardinality({i \in all : medicines[i].stock <= LowStock}),
         adherence |-> IF total_medicines > 0 /\ total_doses > 0
                       THEN <<format_1f(taken_today, total_doses)>>
                       ELSE None]

view_weekly_summary ==
    /\ pc = "menu" /\ LoggedIn
    /\ IF AnyDateRaises(Me)
       THEN Raises("view_weekly_summary", "ValueError") /\ UNCHANGED <<disk, today>>
       ELSE Returns("view_weekly_summary",
                    IF weekly_summary(Me, today).adherence # None
                    THEN "shown with adherence" ELSE "shown")

view_appointments ==
    /\ pc = "menu" /\ LoggedIn
    /\ IF Me.appointments = << >> THEN Returns("view_appointments", "No appointments scheduled")
       ELSE IF AnyDateRaises(Me)
            THEN Raises("view_appointments", "ValueError") /\ UNCHANGED <<disk, today>>
       ELSE Returns("view_appointments", "shown")

\* The indices, in list order, of the medicines emergency_mode lists.
critical_meds(user) ==
    SelectSeq([i \in 1..Len(user.medicines) |-> i],
              LAMBDA i : user.medicines[i].stock <= CriticalStock)

\* The urgent list that holds only what lies ahead.
urgent_appts_ahead(user, now) ==
    SelectSeq([i \in 1..Len(user.appointments) |-> i],
              LAMBDA i : /\ days_until(user.appointments[i], now) >= 0
                         /\ days_until(user.appointments[i], now) <= UrgentDays
                         /\ ~ user.appointments[i].completed)

\* The indices, in list order, of the appointments emergency_mode lists.
urgent_appts(user, now) ==
    SelectSeq([i \in 1..Len(user.appointments) |-> i],
              LAMBDA i : /\ days_until(user.appointments[i], now) <= UrgentDays
                         /\ ~ user.appointments[i].completed)

emergency_mode ==
    /\ pc = "menu" /\ LoggedIn
    /\ IF AnyDateRaises(Me)
       THEN Raises("emergency_mode", "ValueError") /\ UNCHANGED <<disk, today>>
       ELSE Returns("emergency_mode",
                    IF critical_meds(Me) # << >> \/ urgent_appts(Me, today) # << >>
                    THEN "shown with alerts" ELSE "shown")

(***************************************************************************)
(* change_password (menu 9)                                                *)
(***************************************************************************)
\* change_password without the test for an empty new password.
change_password_anynew(current_in, new_in, confirm_in, w) ==
    /\ pc = "menu" /\ LoggedIn
    /\ LET current == strip(current_in)
           new_password == strip(new_in)
           confirm == strip(confirm_in)
           user == [Me EXCEPT !.password = new_password]
       IN  IF current # Me.password
           THEN Returns("change_password", "Current password incorrect")
           ELSE IF new_password # confirm
                THEN Returns("change_password", "Passwords don't match")
           ELSE Saves("change_password", user, <<user>>, w, "ok")

\* change_password without the test of the current password.
change_password_nocurrent(current_in, new_in, confirm_in, w) ==
    /\ pc = "menu" /\ LoggedIn
    /\ LET new_password == strip(new_in)
           confirm == strip(confirm_in)
           user == [Me EXCEPT !.password = new_password]
       IN  IF new_password = ""
           THEN Returns("change_password", "Password cannot be empty")
           ELSE IF new_password # confirm
                THEN Returns("change_password", "Passwords don't match")
           ELSE Saves("change_password", user, <<user>>, w, "ok")

change_password(current_in, new_in, confirm_in, w) ==
    /\ pc = "menu" /\ LoggedIn
    /\ LET current == strip(current_in)
           new_password == strip(new_in)
           confirm == strip(confirm_in)
           user == [Me EXCEPT !.password = new_password]
       IN  IF current # Me.password
           THEN Returns("change_password", "Current password incorrect")
           ELSE IF new_password = ""
                THEN Returns("change_password", "Password cannot be empty")
           ELSE IF new_password # confirm
                THEN Returns("change_password", "Passwords don't match")
           ELSE Saves("change_password", user, <<user>>, w, "ok")

(***************************************************************************)
(* main_menu: logout (11), exit (3 or 12), any other choice; and main().   *)
(***************************************************************************)
logout ==
    /\ pc = "menu" /\ LoggedIn
    /\ current_user' = None
    /\ last' = [op |-> "logout", result |-> "ok"]
    /\ UNCHANGED <<disk, today, pc, procs>>

exit_program ==
    /\ pc = "menu"
    /\ pc' = "terminated"
    /\ current_user' = None
    /\ last' = [op |-> "exit", result |-> "ok"]
    /\ UNCHANGED <<disk, today, procs>>

invalid_choice ==
    /\ pc = "menu"
    /\ Returns("main_menu", "Invalid choice")

\* The program is started again: a new MediTrackApp, with nobody logged in.
main ==
    /\ pc = "terminated"
    /\ pc' = "menu"
    /\ current_user' = None
    /\ last' = [op |-> "main", result |-> "ok"]
    /\ UNCHANGED <<disk, today, procs>>

\* Midnight passes: date.today() is one day later.
NextDay(days) ==
    /\ today < FirstDay + days
    /\ today' = today + 1
    /\ UNCHANGED <<disk, current_user, pc, last, procs>>

(***************************************************************************)
(* The state when the program is first started: no database file.          *)
(***************************************************************************)
Processes == {1, 2}

\* A process at its menu with nobody logged in and no save_user under way.
Idle == [current_user |-> None, at |-> "menu", user |-> None, data |-> EmptyDict]

Init ==
    /\ disk = NoFile
    /\ current_user = None
    /\ today = FirstDay
    /\ pc = "menu"
    /\ last = [op |-> "main", result |-> "ok"]
    /\ procs = [p \in Processes |-> Idle]

(***************************************************************************)
(* Two processes run the program on the same file.  Each handler that      *)
(* saves is taken in the steps at which it reads or writes the file:       *)
(* save_user loads the document and puts the user in (lines 161-163), and  *)
(* save_data opens the file, which truncates it (155), then dumps the      *)
(* document at offset 0 and closes (156).  procs[p].at is where process p  *)
(* is: "menu", "save_user" (called, nothing read yet), "loaded", "opened". *)
(***************************************************************************)
\* How the lengths in bytes of two documents compare, for documents of one
\* user whose medicines have the same texts and one-digit numbers: more
\* medicines, more bytes.
json_len(data) ==
    LET users == Get(data, "users", EmptyDict)
    IN  SumOver([u \in DOMAIN users |-> 1 + Len(users[u].medicines)], DOMAIN users)

At(p, where) == procs[p].at = where

\* The handler of process p has changed its user and calls save_user(user).
CallsSaveUser(p, user, session) ==
    /\ procs' = [procs EXCEPT ![p].current_user = session,
                              ![p].user = <<user>>,
                              ![p].at = "save_user"]
    /\ UNCHANGED <<disk, current_user, today, pc, last>>

register_user_in(p, username_in, name_in, password_in) ==
    /\ At(p, "menu") /\ procs[p].current_user = None
    /\ strip(username_in) # "" /\ ~ user_exists(disk, strip(username_in))
    /\ CallsSaveUser(p, User(strip(username_in), strip(password_in), strip(name_in)),
                     None)

login_user_in(p, username_in, password_in) ==
    /\ At(p, "menu") /\ procs[p].current_user = None
    /\ LET user == load_user(disk, strip(username_in))
       IN  /\ user # None /\ user[1].password = strip(password_in)
           /\ procs' = [procs EXCEPT ![p].current_user = user]
    /\ UNCHANGED <<disk, current_user, today, pc, last>>

add_medicine_in(p, name_in, dosage_in, stock_in, cap) ==
    /\ At(p, "menu") /\ procs[p].current_user # None
    /\ Len(procs[p].current_user[1].medicines) < cap
    /\ LET me == procs[p].current_user[1]
           medicine == Medicine(strip(name_in), strip(dosage_in), "Once daily",
                                strftime(today), strftime(today + DefaultDays),
                                int(strip(stock_in)))
           user == [me EXCEPT !.medicines = Append(@, medicine)]
       IN  CallsSaveUser(p, user, <<user>>)

mark_medicine_taken_in(p, choice_in) ==
    /\ At(p, "menu") /\ procs[p].current_user # None
    /\ LET me == procs[p].current_user[1]
           choice == int(strip(choice_in))
       IN  /\ 1 <= choice /\ choice <= Len(me.medicines)
           /\ take_dose(me.medicines[choice]).ok
           /\ LET user == [me EXCEPT !.medicines[choice] =
                                        take_dose(me.medicines[choice]).medicine]
              IN  CallsSaveUser(p, user, <<user>>)

logout_in(p) ==
    /\ At(p, "menu") /\ procs[p].current_user # None
    /\ procs' = [procs EXCEPT ![p].current_user = None]
    /\ UNCHANGED <<disk, current_user, today, pc, last>>

\* save_user, lines 161-163: the document is read and the user is put in.
save_user_load(p) ==
    /\ At(p, "save_user")
    /\ procs' = [procs EXCEPT ![p].data = put_user(load_data(disk), procs[p].user[1]),
                              ![p].at = "loaded"]
    /\ UNCHANGED <<disk, current_user, today, pc, last>>

\* save_data, line 155: open(DATABASE_FILE, 'w') empties the file.
save_data_open(p) ==
    /\ At(p, "loaded")
    /\ disk' = save_data(procs[p].data, "opened")
    /\ procs' = [procs EXCEPT ![p].at = "opened"]
    /\ UNCHANGED <<current_user, today, pc, last>>

\* save_data, line 156 and the close: the document is written from offset 0
\* over what the file holds by then.  The file is empty unless the other
\* process has written since the open; bytes of a longer document stay
\* behind the end of a shorter one.
save_data_dump(p) ==
    /\ At(p, "opened")
    /\ disk' = IF \/ disk.content = "empty"
                  \/ disk.content = "json" /\ json_len(disk.data) <= json_len(procs[p].data)
               THEN save_data(procs[p].data, "complete")
               ELSE save_data(procs[p].data, "dumping")
    /\ procs' = [procs EXCEPT ![p].at = "menu", ![p].user = None,
                              ![p].data = EmptyDict]
    /\ UNCHANGED <<current_user, today, pc, last>>

RaceOps(I) ==
    \E p \in Processes :
       \/ \E u \in I.usernames, n \in I.names, pw \in I.passwords :
             register_user_in(p, u, n, pw)
       \/ \E u \in I.usernames, pw \in I.passwords : login_user_in(p, u, pw)
       \/ \E n \in I.med_names, d \in I.dosages, s \in I.stocks :
             add_medicine_in(p, n, d, s, I.max_meds)
       \/ \E c \in I.choices : mark_medicine_taken_in(p, c)
       \/ logout_in(p)
       \/ save_user_load(p)
       \/ save_data_open(p)
       \/ save_data_dump(p)

(***************************************************************************)
(* The program started on a file that is already there: none, or one left  *)
(* by other runs of the program or by a release that wrote fewer fields    *)
(* (the optional fields from_dict reads with .get) or that counted missed  *)
(* doses.                                                                  *)
(***************************************************************************)
\* A medicine record without the counters.
OldMedicine ==
    [name |-> "Aspirin", dosage |-> "100mg", frequency |-> "Twice daily",
     start_date |-> <<2024, 2, 1>>, end_date |-> <<2024, 3, 2>>, stock |-> 6]

\* A medicine record with doses taken and doses missed.
CountedMedicine ==
    [name |-> "Statin", dosage |-> "20mg", frequency |-> "Once daily",
     start_date |-> <<2024, 2, 1>>, end_date |-> <<2024, 3, 2>>, stock |-> 0,
     taken_today |-> 7, missed_today |-> 3]

\* An appointment record without location and completed.
OldAppointment ==
    [title |-> "Checkup", doctor |-> "Smith", date |-> <<2024, 2, 27>>,
     time |-> "10:00"]

DoneAppointment ==
    [title |-> "Dentist", doctor |-> "Jones", date |-> <<2024, 2, 28>>,
     time |-> "09:30", location |-> "Clinic", completed |-> TRUE]

LaterAppointment ==
    [title |-> "Eye test", doctor |-> "Lee", date |-> <<2024, 3, 1>>,
     time |-> "14:00", location |-> "", completed |-> FALSE]

FarAppointment ==
    [title |-> "Blood test", doctor |-> "Khan", date |-> <<2024, 3, 2>>,
     time |-> "08:00", location |-> "Lab", completed |-> FALSE]

\* A user record with the required fields only.
OldUser == [username |-> "alice", password |-> "pw1", name |-> "Alice A"]

FullUser ==
    [username |-> "alice", password |-> "pw1", name |-> "Alice A",
     medicines |-> <<OldMedicine, CountedMedicine>>,
     appointments |->
        <<OldAppointment, DoneAppointment, LaterAppointment, FarAppointment>>,
     emergency_contact |-> "Carol", emergency_phone |-> "555-0100"]

StoredDocuments ==
    {NoFile}
    \cup {save_data("users" :> (u.username :> u), "complete") : u \in {OldUser, FullUser}}

InitStored ==
    /\ disk \in StoredDocuments
    /\ current_user = None
    /\ today = FirstDay
    /\ pc = "menu"
    /\ last = [op |-> "main", result |-> "ok"]
    /\ procs = [p \in Processes |-> Idle]

\* Another user's record, written by a release that kept no appointments and
\* no emergency contact.
OtherUser ==
    [username |-> "bob", password |-> "pw2", name |-> "Bob B",
     medicines |-> <<CountedMedicine>>]

\* Documents the program may find: no file, a file that a cut write left
\* empty or cut short (json.load fails on both), and documents that hold
\* another user's record, alone or next to alice's.
SharedDocuments ==
    {NoFile, save_data(EmptyDict, "opened"), save_data(EmptyDict, "dumping"),
     save_data("users" :> (OtherUser.username :> OtherUser), "complete"),
     save_data("users" :> ((OtherUser.username :> OtherUser)
                           @@ (OldUser.username :> OldUser)), "complete")}

InitShared ==
    /\ disk \in SharedDocuments
    /\ current_user = None
    /\ today = FirstDay
    /\ pc = "menu"
    /\ last = [op |-> "main", result |-> "ok"]
    /\ procs = [p \in Processes |-> Idle]

(***************************************************************************)
(* The handlers, over the inputs I: the strings typed at each prompt, how  *)
(* far a write may get, and how many medicines and appointments are added. *)
(***************************************************************************)
Ops(I) ==
    \/ \E u \in I.usernames, n \in I.names, p \in I.passwords, c \in I.passwords,
          e \in I.contacts, w \in I.writes :
            register_user(u, n, p, c, e[1], e[2], w)
    \/ \E u \in I.usernames, p \in I.passwords : login_user(u, p)
    \/ check_notifications
    \/ view_weekly_summary
    \/ view_medicines
    \/ \E n \in I.med_names, d \in I.dosages, f \in I.freq_choices,
          e \in I.end_dates, s \in I.stocks, w \in I.writes :
            add_medicine(n, d, f, e, s, w, I.max_meds)
    \/ \E c \in I.choices, w \in I.writes : mark_medicine_taken(c, w)
    \/ view_appointments
    \/ \E t \in I.titles, d \in I.doctors, dt \in I.dates, tm \in I.times,
          l \in I.locations, w \in I.writes :
            add_appointment(t, d, dt, tm, l, w, I.max_appts)
    \/ \E c \in I.choices, w \in I.writes : mark_appointment_completed(c, w)
    \/ \E c \in I.passwords, n \in I.passwords, k \in I.passwords, w \in I.writes :
            change_password(c, n, k, w)
    \/ emergency_mode
    \/ logout
    \/ exit_program
    \/ invalid_choice
    \/ main

(***************************************************************************)
(* The inputs explored.  Every specification runs every handler.  Each one *)
(* types a wide range of inputs at the prompts it is about; at the others  *)
(* it types what BaseInputs gives, where the medicine name and the         *)
(* appointment title are left empty, so that nothing is added there.       *)
(***************************************************************************)
BaseInputs ==
    [usernames |-> {"alice"}, names |-> {"Alice A"}, passwords |-> {"pw1"},
     contacts |-> {<<"", "">>},
     med_names |-> {""}, dosages |-> {"100mg"}, freq_choices |-> {"2"},
     end_dates |-> {EmptyDate}, stocks |-> {"1"}, choices |-> {"1"},
     titles |-> {""}, doctors |-> {"Smith"}, dates |-> {<<2024, 2, 28>>},
     times |-> {""}, locations |-> {""},
     writes |-> {"complete"}, max_meds |-> FewMeds, max_appts |-> FewAppts]

\* The whole program together, on a moving calendar: two users, a medicine,
\* an appointment.
AllInputs ==
    [BaseInputs EXCEPT !.usernames = {"alice", "bob"},
                       !.med_names = {"Aspirin"},
                       !.titles = {"Checkup"},
                       !.choices = {"1", "2"}]

\* Medicines: every kind of stock input add_medicine takes, every menu choice.
MedInputs ==
    [BaseInputs EXCEPT !.usernames = {"alice", "bob"},
                       !.med_names = {"", "Aspirin"},
                       !.dosages = {"", "100mg"},
                       !.stocks = {"2", "0", "-1"},
                       !.choices = {"0", "1", "2", "3", "x"},
                       !.max_meds = MaxMeds]

\* Appointments: empty, malformed, past, present and future dates.
ApptInputs ==
    [BaseInputs EXCEPT !.titles = {"", "Checkup"},
                       !.doctors = {"", "Smith"},
                       !.dates = {EmptyDate, <<2024, 2, 30>>, <<2024, 2, 27>>,
                                  <<2024, 2, 29>>, <<2024, 3, 4>>},
                       !.choices = {"0", "1", "2", "3", "x"},
                       !.max_appts = MaxAppts]

\* Accounts: empty, blank, mismatched and repeated registration inputs.
AcctInputs ==
    [BaseInputs EXCEPT !.usernames = {"", "alice", " alice ", "bob"},
                       !.names = {" ", "Alice A"},
                       !.passwords = {"", "pw1", "pw2"},
                       !.contacts = {<<"", "">>, <<"Carol", "555-0100">>},
                       !.med_names = {"Aspirin"}]

\* Writes that may be cut short.
FaultInputs ==
    [BaseInputs EXCEPT !.usernames = {"alice", "bob"},
                       !.med_names = {"Aspirin"},
                       !.titles = {"Checkup"},
                       !.writes = {"complete", "opened", "dumping"}]

\* The frequency prompt: every option, and what is not an option.
FreqInputs ==
    [BaseInputs EXCEPT !.med_names = {"", "Aspirin"},
                       !.dosages = {"", "100mg"},
                       !.freq_choices = {"", "0", "1", "2", "3", "4", "5", "x",
                                         SuperscriptTwo},
                       !.stocks = {"0"},
                       !.max_meds = MaxMeds]

\* On a file that is already there: a medicine and an appointment may be added
\* where there is room, and every menu choice is typed.
StoredInputs ==
    [BaseInputs EXCEPT !.med_names = {"Aspirin"},
                       !.titles = {"Checkup"},
                       !.choices = {"0", "1", "2", "3", "x"}]

\* Two processes, one user, a medicine each may add and take.
RaceInputs == [BaseInputs EXCEPT !.med_names = {"Aspirin"}]

\* On a document shared with another user: alice registers, logs in and saves
\* in every way a session can, and a write may be cut short.
SharedInputs ==
    [BaseInputs EXCEPT !.usernames = {"alice", "bob"},
                       !.med_names = {"Aspirin"},
                       !.titles = {"Checkup"},
                       !.writes = {"complete", "opened", "dumping"},
                       !.max_meds = MaxMeds]

Next == Ops(AllInputs) \/ NextDay(FewDays)

Spec == Init /\ [][Next]_vars

NextMed == Ops(MedInputs)

SpecMed == Init /\ [][NextMed]_vars

NextAppt == Ops(ApptInputs) \/ NextDay(MaxDays)

SpecAppt == Init /\ [][NextAppt]_vars

NextAcct == Ops(AcctInputs)

SpecAcct == Init /\ [][NextAcct]_vars

NextFault == Ops(FaultInputs)

SpecFault == Init /\ [][NextFault]_vars

NextFreq == Ops(FreqInputs)

SpecFreq == Init /\ [][NextFreq]_vars

NextRace == RaceOps(RaceInputs)

SpecRace == Init /\ [][NextRace]_vars

NextStored == Ops(StoredInputs) \/ NextDay(FewDays)

SpecStored == InitStored /\ [][NextStored]_vars

NextShared == Ops(SharedInputs)

SpecShared == InitShared /\ [][NextShared]_vars

(***************************************************************************)
(* What the claims speak about.                                            *)
(***************************************************************************)
\* The medicines and appointments of user u in the document, as saved.
SavedMeds(u) == StoredUsers[u].medicines

SavedAppts(u) == StoredUsers[u].appointments

\* The handlers that run inside a session and may save.
SessionOps ==
    {"add_medicine", "add_appointment", "mark_medicine_taken",
     "mark_appointment_completed", "change_password"}

\* The medicine a menu choice selects, when the choice selects one.
Selects(c, i) ==
    /\ LoggedIn /\ pc = "menu"
    /\ ~ int_raises(strip(c))
    /\ i = int(strip(c))
    /\ i \in 1..Len(Me.medicines)

(***************************************************************************)
(* C1: in every reachable state every medicine, in memory and in the       *)
(* document, has stock >= 0.  (The code takes a negative stock input.)     *)
(***************************************************************************)
C1_StockNeverNegative ==
    /\ \A u \in DOMAIN StoredUsers :
         \A i \in 1..Len(SavedMeds(u)) : SavedMeds(u)[i].stock >= 0
    /\ LoggedIn => \A i \in 1..Len(Me.medicines) : Me.medicines[i].stock >= 0

(***************************************************************************)
(* C2: add_appointment with an empty title, doctor or date appends nothing *)
(* and leaves the document as it was.  (The code never tests the date.)    *)
(***************************************************************************)
C2_EmptyFieldsAddNothing ==
    [][\A t \in ApptInputs.titles, d \in ApptInputs.doctors, dt \in ApptInputs.dates :
          ( /\ strip(t) = "" \/ strip(d) = "" \/ dt = EmptyDate
            /\ add_appointment(t, d, dt, "", "", "complete", MaxAppts) )
          => /\ disk' = disk
             /\ current_user' = current_user]_vars

(***************************************************************************)
(* C3: when a save is cut short the document on disk still holds what it   *)
(* held before the save began.  (The code truncates the file in place.)    *)
(***************************************************************************)
C3_CutWriteKeepsDocument ==
    [][disk.exists /\ last'.result = "write interrupted" /\ pc' = "terminated"
          => disk' = disk]_vars

(***************************************************************************)
(* C4: every session operation is all-or-nothing: it ends in success with  *)
(* the saved record equal to the user in memory, or it fails and both the  *)
(* user in memory and the document are as before.                          *)
(***************************************************************************)
C4_AllOrNothing ==
    [][LoggedIn /\ pc = "menu" /\ today' = today /\ last'.op \in SessionOps
          => \/ /\ last'.result = "ok"
                /\ LoggedIn'
                /\ load_user(disk', current_user'[1].username) = current_user'
             \/ /\ last'.result # "ok"
                /\ disk' = disk
                /\ current_user' = current_user]_vars

(***************************************************************************)
(* C5: taking a dose of a medicine whose stock is 0 is refused as out of   *)
(* stock, changes neither stock nor taken_today, and writes nothing.       *)
(***************************************************************************)
C5_OutOfStockRefused ==
    [][\A c \in MedInputs.choices, i \in 1..MaxMeds + 1 :
          ( /\ Selects(c, i)
            /\ Me.medicines[i].stock = 0
            /\ mark_medicine_taken(c, "complete") )
          => /\ last' = [op |-> "mark_medicine_taken", result |-> "Out of stock!"]
             /\ current_user' = current_user
             /\ disk' = disk]_vars

C5_Witness ==
    /\ last = [op |-> "mark_medicine_taken", result |-> "Out of stock!"]
    /\ LoggedIn
    /\ \E i \in 1..Len(Me.medicines) :
         Me.medicines[i].stock = 0 /\ Me.medicines[i].taken_today = 0

(***************************************************************************)
(* C6: taking a dose of a medicine with stock s > 0 succeeds, leaves stock *)
(* s - 1 and taken_today one higher, in memory and in the document; a new  *)
(* medicine starts with taken_today = 0; and no step changes the sum       *)
(* stock + taken_today of a saved medicine.  So a medicine added with      *)
(* stock n >= 0 is taken n times, ends at stock 0 and taken_today n, and   *)
(* is refused from then on.                                                *)
(***************************************************************************)
C6_DoseCountsDown ==
    [][/\ \A c \in MedInputs.choices, i \in 1..MaxMeds + 1 :
            ( /\ Selects(c, i)
              /\ Me.medicines[i].stock > 0
              /\ mark_medicine_taken(c, "complete") )
            => /\ last' = [op |-> "mark_medicine_taken", result |-> "ok"]
               /\ LoggedIn'
               /\ current_user'[1].medicines[i].stock = Me.medicines[i].stock - 1
               /\ current_user'[1].medicines[i].taken_today
                    = Me.medicines[i].taken_today + 1
               /\ SavedMeds(Me.username)'[i] = current_user'[1].medicines[i]
       /\ \A c \in MedInputs.choices, i \in 1..MaxMeds + 1 :
            ( /\ Selects(c, i)
              /\ Me.medicines[i].stock <= 0
              /\ mark_medicine_taken(c, "complete") )
            => /\ last'.result = "Out of stock!"
               /\ current_user' = current_user
               /\ disk' = disk
       /\ \A u \in DOMAIN StoredUsers' :
            \A i \in 1..Len(SavedMeds(u)') :
               IF u \in DOMAIN StoredUsers /\ i <= Len(SavedMeds(u))
               THEN SavedMeds(u)'[i].stock + SavedMeds(u)'[i].taken_today
                      = SavedMeds(u)[i].stock + SavedMeds(u)[i].taken_today
               ELSE SavedMeds(u)'[i].taken_today = 0]_vars

C6_Witness ==
    /\ last = [op |-> "mark_medicine_taken", result |-> "Out of stock!"]
    /\ LoggedIn
    /\ \E i \in 1..Len(Me.medicines) :
         /\ Me.medicines[i].stock = 0 /\ Me.medicines[i].taken_today = 2
         /\ SavedMeds(Me.username)[i] = Me.medicines[i]

(***************************************************************************)
(* C7: no step raises the stock of a saved medicine or removes a medicine; *)
(* the only step that changes a stock is a successful mark_medicine_taken  *)
(* of that medicine, by exactly 1; and the user in memory, also right      *)
(* after login, carries the stocks that are saved.                         *)
(***************************************************************************)
C7_StockOnlyCountsDown ==
    [][/\ \A u \in DOMAIN StoredUsers :
            /\ u \in DOMAIN StoredUsers'
            /\ Len(SavedMeds(u)') >= Len(SavedMeds(u))
            /\ \A i \in 1..Len(SavedMeds(u)) :
                 \/ SavedMeds(u)'[i].stock = SavedMeds(u)[i].stock
                 \/ /\ SavedMeds(u)'[i].stock = SavedMeds(u)[i].stock - 1
                    /\ last' = [op |-> "mark_medicine_taken", result |-> "ok"]
                    /\ LoggedIn /\ Me.username = u
                    /\ \E c \in AllInputs.choices :
                         Selects(c, i) /\ mark_medicine_taken(c, "complete")
       /\ LoggedIn /\ LoggedIn' =>
            /\ current_user'[1].username = Me.username
            /\ Len(current_user'[1].medicines) >= Len(Me.medicines)
            /\ \A i \in 1..Len(Me.medicines) :
                 current_user'[1].medicines[i].stock <= Me.medicines[i].stock
       /\ LoggedIn' =>
            /\ Len(current_user'[1].medicines)
                 = Len(StoredUsers'[current_user'[1].username].medicines)
            /\ \A i \in 1..Len(current_user'[1].medicines) :
                 current_user'[1].medicines[i].stock
                   = StoredUsers'[current_user'[1].username].medicines[i].stock]_vars

C7_Witness ==
    /\ last = [op |-> "login_user", result |-> "ok"]
    /\ LoggedIn
    /\ today > FirstDay
    /\ \E i \in 1..Len(Me.medicines) :
         Me.medicines[i].stock = 0 /\ Me.medicines[i].taken_today = 1

(***************************************************************************)
(* C8: once an appointment is completed it stays completed: in the         *)
(* document across every step, in memory during a session, and in the     *)
(* user that login builds from the document.                               *)
(***************************************************************************)
C8_CompletedStays ==
    [][/\ \A u \in DOMAIN StoredUsers :
            \A i \in 1..Len(SavedAppts(u)) :
               SavedAppts(u)[i].completed =>
                  /\ u \in DOMAIN StoredUsers'
                  /\ i <= Len(SavedAppts(u)')
                  /\ SavedAppts(u)'[i].completed
       /\ LoggedIn /\ LoggedIn' =>
            \A i \in 1..Len(Me.appointments) :
               Me.appointments[i].completed =>
                  /\ i <= Len(current_user'[1].appointments)
                  /\ current_user'[1].appointments[i].completed
       /\ LoggedIn' =>
            \A i \in 1..Len(StoredUsers'[current_user'[1].username].appointments) :
               StoredUsers'[current_user'[1].username].appointments[i].completed =>
                  /\ i <= Len(current_user'[1].appointments)
                  /\ current_user'[1].appointments[i].completed]_vars

C8_Witness ==
    /\ last = [op |-> "login_user", result |-> "ok"]
    /\ LoggedIn
    /\ \E i \in 1..Len(Me.appointments) :
         Me.appointments[i].completed /\ days_until(Me.appointments[i], today) < 0

(***************************************************************************)
(* C9: the document keys every record by its own username, and             *)
(* register_user with a username that is already there is refused and      *)
(* leaves the document, so the record of that user, untouched; no          *)
(* register_user changes the record of a user who is there.                *)
(***************************************************************************)
C9_DuplicateUsernameRefused ==
    [][/\ \A u \in DOMAIN StoredUsers : StoredUsers[u].username = u
       /\ last'.op = "register_user" =>
            /\ \A u \in DOMAIN StoredUsers :
                 u \in DOMAIN StoredUsers' /\ StoredUsers'[u] = StoredUsers[u]
            /\ \A u \in AcctInputs.usernames :
                 strip(u) \in DOMAIN StoredUsers =>
                    \A n \in AcctInputs.names, p \in AcctInputs.passwords,
                       c \in AcctInputs.passwords, e \in AcctInputs.contacts :
                          register_user(u, n, p, c, e[1], e[2], "complete") =>
                             /\ last'.result = "Username already exists"
                             /\ disk' = disk]_vars

C9_Witness ==
    /\ last = [op |-> "register_user", result |-> "Username already exists"]
    /\ "alice" \in DOMAIN StoredUsers
    /\ StoredUsers["alice"].medicines # << >>
    /\ StoredUsers["alice"].password = "pw2"
    /\ "bob" \in DOMAIN StoredUsers

(***************************************************************************)
(* C10: register_user with an empty username, name or password, or with a  *)
(* confirmation that differs, saves nothing; and after every step every    *)
(* saved user has a non-empty username, name and password.                 *)
(***************************************************************************)
C10_SavedUsersComplete ==
    [][/\ last'.op = "register_user" =>
            \A u \in AcctInputs.usernames, n \in AcctInputs.names,
               p \in AcctInputs.passwords, c \in AcctInputs.passwords :
                  ( /\ \/ strip(u) = "" \/ strip(n) = ""
                       \/ strip(p) = "" \/ strip(p) # strip(c)
                    /\ \E e \in AcctInputs.contacts :
                         register_user(u, n, p, c, e[1], e[2], "complete") )
                  => disk' = disk /\ last'.result # "ok"
       /\ \A u \in DOMAIN StoredUsers' :
            /\ StoredUsers'[u].username # ""
            /\ StoredUsers'[u].name # ""
            /\ StoredUsers'[u].password # ""]_vars

C10_Witness ==
    /\ last = [op |-> "register_user", result |-> "Passwords don't match"]
    /\ "alice" \in DOMAIN StoredUsers
    /\ "bob" \notin DOMAIN StoredUsers

(***************************************************************************)
(* C11: login_user leaves a session exactly when the username is in the    *)
(* document and the password typed equals the saved one, the session then  *)
(* being the saved user; every other login prints the one message "Invalid *)
(* username or password" and leaves no session; and a saved password only  *)
(* changes in a successful change_password.  (A login of a user who has an *)
(* appointment whose date does not parse ends in a traceback.)             *)
(***************************************************************************)
C11_LoginIffPasswordMatches ==
    [][/\ \A u \in ApptInputs.usernames, p \in ApptInputs.passwords :
            login_user(u, p) =>
               IF /\ strip(u) \in DOMAIN StoredUsers
                  /\ StoredUsers[strip(u)].password = strip(p)
               THEN /\ current_user' = <<User_from_dict(StoredUsers[strip(u)])>>
                    /\ last' = [op |-> "login_user", result |-> "ok"]
               ELSE /\ current_user' = None
                    /\ last' = [op |-> "login_user",
                                result |-> "Invalid username or password"]
       /\ \A u \in DOMAIN StoredUsers :
            ( /\ u \in DOMAIN StoredUsers'
              /\ StoredUsers'[u].password # StoredUsers[u].password )
            => last' = [op |-> "change_password", result |-> "ok"]]_vars

(***************************************************************************)
(* C12: change_password with a current password that is not the user's, or *)
(* with an empty new password, or with a confirmation that differs, fails  *)
(* and leaves the user in memory and the document as they were; the saved  *)
(* record still carries the old password, so a login with it succeeds.     *)
(***************************************************************************)
C12_FailedChangeKeepsPassword ==
    [][\A c \in AcctInputs.passwords, n \in AcctInputs.passwords,
          k \in AcctInputs.passwords :
          ( /\ LoggedIn /\ pc = "menu"
            /\ \/ strip(c) # Me.password
               \/ strip(n) = ""
               \/ strip(n) # strip(k)
            /\ change_password(c, n, k, "complete") )
          => /\ last'.op = "change_password"
             /\ last'.result # "ok"
             /\ strip(c) # Me.password => last'.result = "Current password incorrect"
             /\ current_user' = current_user
             /\ disk' = disk
             /\ LET old == load_user(disk', Me.username)
                IN  /\ old # None
                    /\ old[1].password = Me.password
                    /\ ~ AnyDateRaises(old[1])]_vars

C12_Witness ==
    /\ last = [op |-> "change_password", result |-> "Current password incorrect"]
    /\ LoggedIn
    /\ Me.password = "pw2"
    /\ StoredUsers[Me.username].password = "pw2"

(***************************************************************************)
(* C13: mark_appointment_completed with choice k sets completed on the     *)
(* k-th appointment, in list order, among those that are not past and not  *)
(* completed, changes nothing else of the user (no other appointment, no   *)
(* medicine), saves that user and leaves every other saved record alone;   *)
(* when there is no such k-th appointment, the user and the document stay  *)
(* as they were.                                                           *)
(***************************************************************************)
C13_CompletesTheChosenOne ==
    [][\A c \in StoredInputs.choices :
          ( /\ LoggedIn /\ pc = "menu"
            /\ mark_appointment_completed(c, "complete") )
          => LET appts == Me.appointments
                 open == {i \in 1..Len(appts) :
                            /\ ~ days_until_raises(appts[i])
                            /\ toordinal(appts[i].date) >= today
                            /\ ~ appts[i].completed}
                 k == IF int_raises(strip(c)) THEN 0 ELSE int(strip(c))
                 chosen == {i \in open : Cardinality({j \in open : j <= i}) = k}
             IN  IF chosen # {}
                 THEN /\ last' = [op |-> "mark_appointment_completed", result |-> "ok"]
                      /\ LoggedIn'
                      /\ current_user'[1] =
                            [Me EXCEPT !.appointments =
                                [i \in 1..Len(appts) |->
                                    IF i \in chosen
                                    THEN [appts[i] EXCEPT !.completed = TRUE]
                                    ELSE appts[i]]]
                      /\ load_user(disk', Me.username) = current_user'
                      /\ \A u \in DOMAIN StoredUsers \ {Me.username} :
                            u \in DOMAIN StoredUsers' /\ StoredUsers'[u] = StoredUsers[u]
                 ELSE /\ last'.op = "mark_appointment_completed"
                      /\ last'.result # "ok"
                      /\ current_user' = current_user
                      /\ disk' = disk]_vars

C13_Witness ==
    /\ last = [op |-> "mark_appointment_completed", result |-> "ok"]
    /\ LoggedIn
    /\ Len(Me.medicines) = 2
    /\ Len(Me.appointments) = 4
    /\ ~ Me.appointments[1].completed
    /\ Me.appointments[3].completed
    /\ load_user(disk, Me.username) = current_user

(***************************************************************************)
(* C14: in every session every date parses, and the notifications are the  *)
(* ones computed with the completed appointments taken out of the list: a  *)
(* completed appointment is never announced, as "TODAY" or as "in days",   *)
(* whatever its date and whatever the day.                                 *)
(***************************************************************************)
C14_CompletedNeverNotified ==
    LoggedIn =>
       /\ ~ AnyDateRaises(Me)
       /\ LET open == SelectSeq(Me.appointments, LAMBDA a : ~ a.completed)
              notes == notifications(Me, today)
          IN  /\ notes = notifications([Me EXCEPT !.appointments = open], today)
              /\ Cardinality({j \in 1..Len(notes) : notes[j].kind # "low stock"})
                    <= Len(open)

C14_Witness ==
    /\ last = [op |-> "check_notifications", result |-> "nothing"]
    /\ LoggedIn
    /\ \E i \in 1..Len(Me.appointments) :
         /\ Me.appointments[i].completed
         /\ days_until(Me.appointments[i], today) = 0

(***************************************************************************)
(* C15: to_dict followed by from_dict gives back the same Medicine,        *)
(* Appointment and User, field by field; from_dict of a saved record keeps *)
(* every field the record has and reads a missing location as "", a        *)
(* missing completed as False, missing taken_today and missed_today as 0,  *)
(* missing medicines and appointments as empty lists and a missing         *)
(* emergency contact or phone as ""; and in every session the user in      *)
(* memory is the one a login builds from the document, so logout followed  *)
(* by login gives back the state that was saved last.                      *)
(***************************************************************************)
C15_RecordsRoundTrip ==
    [][/\ LoggedIn =>
            /\ User_from_dict(User_to_dict(Me)) = Me
            /\ \A i \in 1..Len(Me.medicines) :
                 Medicine_from_dict(Medicine_to_dict(Me.medicines[i])) = Me.medicines[i]
            /\ \A i \in 1..Len(Me.appointments) :
                 Appointment_from_dict(Appointment_to_dict(Me.appointments[i]))
                   = Me.appointments[i]
       /\ \A name \in DOMAIN StoredUsers :
            LET d == StoredUsers[name]
                x == User_from_dict(d)
                has(r, f) == f \in DOMAIN r
            IN  /\ x.username = d.username /\ x.password = d.password /\ x.name = d.name
                /\ x.emergency_contact
                     = (IF has(d, "emergency_contact") THEN d.emergency_contact ELSE "")
                /\ x.emergency_phone
                     = (IF has(d, "emergency_phone") THEN d.emergency_phone ELSE "")
                /\ ~ has(d, "medicines") => x.medicines = << >>
                /\ ~ has(d, "appointments") => x.appointments = << >>
                /\ has(d, "medicines") =>
                     /\ Len(x.medicines) = Len(d.medicines)
                     /\ \A i \in 1..Len(d.medicines) :
                          LET md == d.medicines[i]
                              m == x.medicines[i]
                          IN  /\ m.name = md.name /\ m.dosage = md.dosage
                              /\ m.frequency = md.frequency
                              /\ m.start_date = md.start_date
                              /\ m.end_date = md.end_date
                              /\ m.stock = md.stock
                              /\ m.taken_today
                                   = (IF has(md, "taken_today") THEN md.taken_today ELSE 0)
                              /\ m.missed_today
                                   = (IF has(md, "missed_today") THEN md.missed_today ELSE 0)
                /\ has(d, "appointments") =>
                     /\ Len(x.appointments) = Len(d.appointments)
                     /\ \A i \in 1..Len(d.appointments) :
                          LET ad == d.appointments[i]
                              a == x.appointments[i]
                          IN  /\ a.title = ad.title /\ a.doctor = ad.doctor
                              /\ a.date = ad.date /\ a.time = ad.time
                              /\ a.location
                                   = (IF has(ad, "location") THEN ad.location ELSE "")
                              /\ a.completed
                                   = (IF has(ad, "completed") THEN ad.completed ELSE FALSE)
                /\ User_from_dict(User_to_dict(x)) = x
       /\ LoggedIn' => load_user(disk', current_user'[1].username) = current_user'
       /\ \A u \in StoredInputs.usernames, p \in StoredInputs.passwords :
            login_user(u, p) /\ LoggedIn'
               => current_user'[1] = User_from_dict(StoredUsers[strip(u)])]_vars

C15_Witness ==
    /\ last = [op |-> "login_user", result |-> "ok"]
    /\ LoggedIn
    /\ "emergency_contact" \in DOMAIN StoredUsers[Me.username]
    /\ Len(Me.medicines) = 2
    /\ "taken_today" \notin DOMAIN StoredUsers[Me.username].medicines[1]
    /\ Me.medicines[1].taken_today = 0 /\ Me.medicines[1].missed_today = 0
    /\ Me.medicines[2].taken_today = 7 /\ Me.medicines[2].missed_today = 3
    /\ "completed" \notin DOMAIN StoredUsers[Me.username].appointments[1]
    /\ Me.appointments[1].location = "" /\ ~ Me.appointments[1].completed
    /\ Me.appointments[2].completed

(***************************************************************************)
(* C16: when two processes save over each other, the document that is in   *)
(* the file after a process has written is the document that process       *)
(* wrote: the last writer wins.  (The writes are made in place: when both  *)
(* processes have opened the file before either has written, the second    *)
(* document is laid over the first, and what is left is neither.)          *)
(***************************************************************************)
C16_LastWriterWins ==
    [][\A p \in Processes :
          save_data_dump(p) =>
             /\ disk'.content = "json"
             /\ load_data(disk') = procs[p].data]_vars

\* Both processes are back at their menus, and the medicine the first one
\* added and saved is not in the document the second one wrote last.
C16_LostUpdate ==
    /\ \A p \in Processes : At(p, "menu")
    /\ procs[1].current_user # None
    /\ procs[1].current_user[1].medicines # << >>
    /\ disk.content = "json"
    /\ StoredUsers[procs[1].current_user[1].username].medicines = << >>

(***************************************************************************)
(* C17: taken_today and missed_today of a medicine never go down: not in   *)
(* the document, whatever step is taken (a handler, a restart, the next    *)
(* day), not in memory during a session, and the user that login builds    *)
(* carries the counters that are saved.                                    *)
(***************************************************************************)
C17_CountersNeverReset ==
    [][/\ \A u \in DOMAIN StoredUsers :
            /\ u \in DOMAIN StoredUsers'
            /\ LET old == Get(StoredUsers[u], "medicines", << >>)
                   new == Get(StoredUsers'[u], "medicines", << >>)
               IN  /\ Len(new) >= Len(old)
                   /\ \A i \in 1..Len(old) :
                        /\ Get(new[i], "taken_today", 0) >= Get(old[i], "taken_today", 0)
                        /\ Get(new[i], "missed_today", 0)
                             >= Get(old[i], "missed_today", 0)
       /\ LoggedIn /\ LoggedIn' =>
            /\ Len(current_user'[1].medicines) >= Len(Me.medicines)
            /\ \A i \in 1..Len(Me.medicines) :
                 /\ current_user'[1].medicines[i].taken_today
                      >= Me.medicines[i].taken_today
                 /\ current_user'[1].medicines[i].missed_today
                      >= Me.medicines[i].missed_today
       /\ LoggedIn' =>
            LET saved == Get(StoredUsers'[current_user'[1].username], "medicines", << >>)
                mine == current_user'[1].medicines
            IN  /\ Len(mine) = Len(saved)
                /\ \A i \in 1..Len(mine) :
                     /\ mine[i].taken_today = Get(saved[i], "taken_today", 0)
                     /\ mine[i].missed_today = Get(saved[i], "missed_today", 0)]_vars

C17_Witness ==
    /\ last = [op |-> "login_user", result |-> "ok"]
    /\ LoggedIn
    /\ today > FirstDay
    /\ Len(Me.medicines) = 2
    /\ Me.medicines[1].taken_today = 2
    /\ Me.medicines[2].taken_today = 7 /\ Me.medicines[2].missed_today = 3

(***************************************************************************)
(* C18: the notifications are exactly: for each appointment that is not    *)
(* completed and is today, a "TODAY" entry with its title and doctor; for  *)
(* each one not completed and 1 to 3 days away, an "in days" entry with    *)
(* title, doctor and the days; these in the order of the appointment list; *)
(* then, in the order of the medicine list, a "low stock" entry with name  *)
(* and stock for each medicine with stock <= 5; nothing else.  The menu's  *)
(* check_notifications changes neither the user nor the document.          *)
(***************************************************************************)
C18_NotificationsExact ==
    [][/\ LoggedIn =>
            LET appts == Me.appointments
                meds == Me.medicines
                notes == notifications(Me, today)
                days(i) == toordinal(appts[i].date) - today
                A == {i \in 1..Len(appts) :
                        ~ appts[i].completed /\ 0 <= days(i) /\ days(i) <= 3}
                M == {i \in 1..Len(meds) : meds[i].stock <= 5}
                rank(S, i) == Cardinality({j \in S : j <= i})
            IN  /\ Len(notes) = Cardinality(A) + Cardinality(M)
                /\ \A i \in A :
                     LET note == notes[rank(A, i)]
                     IN  /\ note.kind = (IF days(i) = 0 THEN "TODAY" ELSE "in days")
                         /\ note.title = appts[i].title
                         /\ note.doctor = appts[i].doctor
                         /\ days(i) # 0 => note.days = days(i)
                /\ \A i \in M :
                     LET note == notes[Cardinality(A) + rank(M, i)]
                     IN  /\ note.kind = "low stock"
                         /\ note.name = meds[i].name
                         /\ note.stock = meds[i].stock
       /\ check_notifications =>
            /\ current_user' = current_user
            /\ disk' = disk
            /\ last'.result = (IF notifications(Me, today) = << >>
                               THEN "nothing" ELSE "shown")]_vars

C18_Witness ==
    /\ last = [op |-> "check_notifications", result |-> "shown"]
    /\ LoggedIn
    /\ today = FirstDay + 1
    /\ Len(Me.appointments) = 4 /\ Len(Me.medicines) = 2
    /\ Me.medicines[1].stock = 5
    /\ \A i \in 1..4 : Me.appointments[i].completed <=> i = 2
    /\ Len(notifications(Me, today)) = 4

(***************************************************************************)
(* C19: add_medicine with an empty name or dosage adds and saves nothing;  *)
(* otherwise it appends and saves a medicine whose frequency is "Once      *)
(* daily", "Twice daily", "Three times daily" or "Four times daily" for    *)
(* the choices 1, 2, 3, 4 and "Once daily" for every other choice; so      *)
(* every medicine has one of the four.  (A choice such as the superscript  *)
(* two, a digit to isdigit() and not a number to int(), ends the program.) *)
(***************************************************************************)
C19_FrequencyFromChoice ==
    [][/\ \A n \in FreqInputs.med_names, d \in FreqInputs.dosages,
             f \in FreqInputs.freq_choices :
            ( /\ LoggedIn /\ pc = "menu" /\ StoredMeds < MaxMeds
              /\ add_medicine(n, d, f, EmptyDate, "0", "complete", MaxMeds) )
            => IF strip(n) = "" \/ strip(d) = ""
               THEN /\ last'.result # "ok"
                    /\ current_user' = current_user
                    /\ disk' = disk
               ELSE /\ last' = [op |-> "add_medicine", result |-> "ok"]
                    /\ LoggedIn'
                    /\ Len(current_user'[1].medicines) = Len(Me.medicines) + 1
                    /\ current_user'[1].medicines[Len(Me.medicines) + 1].frequency
                         = ( CASE strip(f) = "1" -> "Once daily"
                               [] strip(f) = "2" -> "Twice daily"
                               [] strip(f) = "3" -> "Three times daily"
                               [] strip(f) = "4" -> "Four times daily"
                               [] OTHER -> "Once daily" )
                    /\ load_user(disk', Me.username) = current_user'
       /\ \A u \in DOMAIN StoredUsers' :
            \A i \in 1..Len(StoredUsers'[u].medicines) :
               StoredUsers'[u].medicines[i].frequency
                  \in {"Once daily", "Twice daily", "Three times daily",
                       "Four times daily"}]_vars

(***************************************************************************)
(* C20: view_weekly_summary prints an adherence rate exactly when the      *)
(* doses taken and missed, summed over the medicines, are more than 0; the *)
(* rate is taken * 100 / (taken + missed) to the nearest tenth, 70.0 for 7 *)
(* taken and 3 missed; with no doses counted there is no rate and no       *)
(* division; and the handler changes neither the user nor the document.    *)
(***************************************************************************)
C20_AdherenceWhenDosesCounted ==
    [][LoggedIn =>
          LET meds == Me.medicines
              summary == weekly_summary(Me, today)
              taken == SumOver([i \in 1..Len(meds) |-> meds[i].taken_today],
                               1..Len(meds))
              missed == SumOver([i \in 1..Len(meds) |-> meds[i].missed_today],
                                1..Len(meds))
              off(a) == a * (taken + missed) - 1000 * taken
          IN  /\ (summary.adherence # None) <=> (taken + missed > 0)
              /\ taken + missed > 0 =>
                   /\ 2 * off(summary.adherence[1]) <= taken + missed
                   /\ 2 * off(summary.adherence[1]) >= 0 - (taken + missed)
              /\ taken = 7 /\ missed = 3 => summary.adherence = <<700>>
              /\ view_weekly_summary =>
                   /\ last' = [op |-> "view_weekly_summary",
                               result |-> IF taken + missed > 0
                                          THEN "shown with adherence" ELSE "shown"]
                   /\ pc' = "menu"
                   /\ current_user' = current_user
                   /\ disk' = disk]_vars

C20_Witness ==
    /\ last = [op |-> "view_weekly_summary", result |-> "shown with adherence"]
    /\ LoggedIn
    /\ Len(Me.medicines) = 2
    /\ Me.medicines[1].taken_today = 0 /\ Me.medicines[1].missed_today = 0
    /\ Me.medicines[2].taken_today = 7 /\ Me.medicines[2].missed_today = 3
    /\ weekly_summary(Me, today).adherence = <<700>>

(***************************************************************************)
(* C21: a handler that saves one user (register_user for the name typed,   *)
(* the session handlers for the user logged in) leaves the record of every *)
(* other user in the document, exactly as it was, whatever the file held   *)
(* before: nothing, an empty or cut-short file, or other users' records.   *)
(* (A save that is cut short leaves the file empty or partial, and the     *)
(* other records are gone.)                                                *)
(***************************************************************************)
C21_OtherUsersKept ==
    [][\A b \in DOMAIN StoredUsers :
          (LoggedIn => b # Me.username)
             => /\ b \in DOMAIN StoredUsers'
                /\ StoredUsers'[b] = StoredUsers[b]]_vars

\* alice added a medicine on a document that held bob's record, and bob's
\* record is there as it was written.
C21_Witness ==
    /\ last = [op |-> "add_medicine", result |-> "ok"]
    /\ LoggedIn /\ Me.username = "alice" /\ Len(Me.medicines) = 1
    /\ DOMAIN StoredUsers = {"alice", "bob"}
    /\ StoredUsers["bob"] = OtherUser
    /\ Len(StoredUsers["alice"].medicines) = 1

(***************************************************************************)
(* C22: no handler changes missed_today: a medicine keeps the value it has *)
(* in the document and in the session, and add_medicine creates it with 0; *)
(* so for a user whose medicines all came from add_medicine the summary's  *)
(* missed total is 0 and the adherence rate, when it is printed, is 100.0. *)
(***************************************************************************)
C22_MissedNeverChanges ==
    [][/\ \A u \in DOMAIN StoredUsers \cap DOMAIN StoredUsers' :
            LET before == Get(StoredUsers[u], "medicines", << >>)
                after == Get(StoredUsers'[u], "medicines", << >>)
            IN  /\ Len(before) <= Len(after)
                /\ \A i \in 1..Len(before) :
                      Get(after[i], "missed_today", 0) = Get(before[i], "missed_today", 0)
       /\ LoggedIn /\ LoggedIn' =>
            /\ Len(Me.medicines) <= Len(current_user'[1].medicines)
            /\ \A i \in 1..Len(Me.medicines) :
                  current_user'[1].medicines[i].missed_today = Me.medicines[i].missed_today
       /\ today' = today /\ last'.op = "add_medicine" /\ last'.result = "ok" =>
            LET mine == current_user'[1].medicines
                saved == StoredUsers'[current_user'[1].username].medicines
            IN  /\ Len(mine) = Len(Me.medicines) + 1
                /\ mine[Len(mine)].missed_today = 0
                /\ saved[Len(saved)].missed_today = 0
       /\ LoggedIn' /\ ~ AnyDateRaises(current_user'[1])
             /\ (\A i \in 1..Len(current_user'[1].medicines) :
                    current_user'[1].medicines[i].missed_today = 0) =>
            LET summary == weekly_summary(current_user'[1], today')
                mine == current_user'[1].medicines
            IN  /\ summary.missed_today = 0
                /\ summary.adherence \in {None, <<1000>>}
                /\ summary.adherence = <<1000>> <=>
                      \E i \in 1..Len(mine) : mine[i].taken_today > 0]_vars

\* The summary was printed with its adherence line for a user whose one
\* medicine was added in this run and taken once.
C22_Witness ==
    /\ last = [op |-> "view_weekly_summary", result |-> "shown with adherence"]
    /\ LoggedIn /\ Len(Me.medicines) = 1
    /\ Me.medicines[1].taken_today = 1 /\ Me.medicines[1].missed_today = 0
    /\ weekly_summary(Me, today).adherence = <<1000>>

(***************************************************************************)
(* C23: the date never goes back; an appointment that is not completed and *)
(* whose date has passed stays so after every step, in the document and in *)
(* the session: mark_appointment_completed does not offer it, whatever is  *)
(* typed; and in every session emergency_mode lists it as urgent.          *)
(***************************************************************************)
C23_OverdueStaysUrgent ==
    [][LET overdue(a, now) ==
               /\ ~ days_until_raises(a)
               /\ days_until(a, now) < 0
               /\ ~ a.completed
           saved(file, u) ==
               LET record == Get(load_data(file), "users", EmptyDict)[u]
                   appointments == Get(record, "appointments", << >>)
               IN  [i \in 1..Len(appointments) |->
                       Appointment_from_dict(appointments[i])]
       IN  /\ today' >= today
           /\ \A u \in DOMAIN StoredUsers :
                 \A i \in 1..Len(saved(disk, u)) :
                    overdue(saved(disk, u)[i], today) =>
                       /\ u \in DOMAIN StoredUsers'
                       /\ i <= Len(saved(disk', u))
                       /\ saved(disk', u)[i] = saved(disk, u)[i]
                       /\ overdue(saved(disk', u)[i], today')
           /\ LoggedIn /\ LoggedIn' =>
                 \A i \in 1..Len(Me.appointments) :
                    overdue(Me.appointments[i], today) =>
                       /\ i <= Len(current_user'[1].appointments)
                       /\ current_user'[1].appointments[i] = Me.appointments[i]
           /\ LoggedIn' =>
                 LET user == current_user'[1]
                 IN  \A i \in 1..Len(user.appointments) :
                        overdue(user.appointments[i], today') =>
                           /\ ~ AnyDateRaises(user)
                           /\ \A k \in 1..Len(upcoming(user, today')) :
                                 upcoming(user, today')[k] # i
                           /\ \E k \in 1..Len(urgent_appts(user, today')) :
                                 urgent_appts(user, today')[k] = i]_vars

\* emergency_mode has shown its lists to a user whose one appointment is
\* overdue: it is in the urgent list and mark_appointment_completed has
\* nothing to offer.
C23_Witness ==
    /\ last = [op |-> "emergency_mode", result |-> "shown with alerts"]
    /\ LoggedIn /\ Len(Me.appointments) = 1
    /\ ~ Me.appointments[1].completed
    /\ days_until(Me.appointments[1], today) < 0
    /\ urgent_appts(Me, today) = <<1>>
    /\ upcoming(Me, today) = << >>

====
